---- MODULE Spec2Model ----
(***************************************************************************)
(* TensorMONK: the neural decision forest of                               *)
(* tensormonk/architectures/trees.py (NeuralTree, NeuralDecisionForest).   *)
(*                                                                         *)
(* Numbers.  A decision value is a multiple k/Q of the grid step 1/Q and   *)
(* is held as the integer k; a tensor carries the power of Q its entries   *)
(* are scaled by ("one"), so that 1 - x is one - x and a product of two    *)
(* tensors multiplies the scales.  Class probabilities are exact           *)
(* rationals <<n, d>>.  A leaf weight w stands for w * ln 2, so that       *)
(* exp(w) is the integer 2^w.                                              *)
(***************************************************************************)
EXTENDS Integers, Sequences, FiniteSets, TLC

\* ---- bounds of the model ------------------------------------------------
MaxDepth == 2
MaxTrees == 2
MaxBatch == 2
MaxSteps == 2
Q        == 2
NLabels  == 2

Samples  == 1 .. 3        \* the feature vectors a batch is made of
Thetas   == 0 .. 3        \* parameter settings of a scoring sub-network
Omegas   == 0 .. 1        \* parameter settings of a leaf weight

None == [none |-> TRUE]

\* ---- arithmetic ----------------------------------------------------------
RECURSIVE Pow(_, _)
Pow(b, k) == IF k <= 0 THEN 1 ELSE b * Pow(b, k - 1)

RECURSIVE GCD(_, _)
GCD(a, b) == IF b = 0 THEN a ELSE GCD(b, a % b)

Abs(a) == IF a < 0 THEN 0 - a ELSE a

\* the rational n/d in lowest terms, d > 0
Rat(n, d) ==
    LET g == GCD(Abs(n), d)
    IN  IF n = 0 THEN <<0, 1>> ELSE <<n \div g, d \div g>>

RAdd(x, y) ==
    LET g == GCD(x[2], y[2])
    IN  Rat(x[1] * (y[2] \div g) + y[1] * (x[2] \div g), (x[2] \div g) * y[2])

RMul(x, y) ==
    LET a == Rat(x[1], y[2])
        b == Rat(y[1], x[2])
    IN  Rat(a[1] * b[1], a[2] * b[2])

RECURSIVE LCMs(_)
LCMs(s) == IF s = <<>> THEN 1
           ELSE LET r == LCMs(Tail(s)) IN (Head(s) \div GCD(Head(s), r)) * r

RECURSIVE RSumTo(_, _)
RSumTo(s, k) == IF k = 0 THEN <<0, 1>> ELSE RAdd(s[k], RSumTo(s, k - 1))

RSum(s) == RSumTo(s, Len(s))

RECURSIVE ISumTo(_, _)
ISumTo(s, k) == IF k = 0 THEN 0 ELSE s[k] + ISumTo(s, k - 1)

ISum(s) == ISumTo(s, Len(s))

RECURSIVE Flatten(_)
Flatten(ss) == IF ss = <<>> THEN <<>> ELSE Head(ss) \o Flatten(Tail(ss))

\* a sequence given as a function, as the tuple of its values
Tuple(f) == f \o <<>>

\* ---- tensors -------------------------------------------------------------
\* A (B, n) tensor: its entries in row-major order, and the scale of an entry.
Tensor(B, n, one, data) == [B |-> B, n |-> n, one |-> one, data |-> Tuple(data)]

Row(t, b) == SubSeq(t.data, (b - 1) * t.n + 1, b * t.n)

\* leaf_responses[:, x] for a list x of 0-based column indices
Columns(t, x) ==
    Tensor(t.B, Len(x), t.one,
           [k \in 1 .. t.B * Len(x) |->
               t.data[((k - 1) \div Len(x)) * t.n + x[((k - 1) % Len(x)) + 1] + 1]])

\* decision - 1 in place of 1 - decision
ComplementReversed(one, x) == x - one

\* 1 - x, for an entry x of a tensor whose entries are scaled by one
Complement(one, x) == one - x

\* torch.cat((decision, 1 - decision), 0).view(BSZ, -1): the complements are
\* appended as B further samples
CatViewDim0(t, BSZ) ==
    Tensor(BSZ, (2 * Len(t.data)) \div BSZ, t.one,
           [k \in 1 .. 2 * Len(t.data) |->
               IF k <= Len(t.data) THEN t.data[k]
                                   ELSE Complement(t.one, t.data[k - Len(t.data)])])

\* decision.unsqueeze(2); torch.cat((decision, 1 - decision), 2).view(BSZ, -1):
\* entry (b, i, c) of the (B, n, 2) tensor sits at ((b*n + i)*2 + c) and the view
\* cuts the same storage into BSZ rows.
CatView(t, BSZ) ==
    Tensor(BSZ, (2 * Len(t.data)) \div BSZ, t.one,
           [k \in 1 .. 2 * Len(t.data) |->
               IF k % 2 = 1 THEN t.data[(k + 1) \div 2]
                            ELSE Complement(t.one, t.data[k \div 2])])

\* decision.mul(other), two tensors of one shape
Mul(t, u) ==
    Tensor(t.B, t.n, t.one * u.one, [k \in 1 .. Len(t.data) |-> t.data[k] * u.data[k]])

\* ---- NeuralTree.__init__ -------------------------------------------------
\* [2**x for x in range(depth+1)]
decision_per_depth(depth) == Tuple([x \in 1 .. depth + 1 |-> Pow(2, x - 1)])

\* np.cumsum
cumsum(s) == Tuple([k \in 1 .. Len(s) |-> ISum(SubSeq(s, 1, k))])

\* list(range(a, b))
Range(a, b) == Tuple([k \in 1 .. (IF b > a THEN b - a ELSE 0) |-> a + k - 1])

Max(a, b) == IF a > b THEN a ELSE b

\* [list(range(y-x+1, y+1)) ...]: the ranges taken one index too far
ZipRangesShifted(dpd, cs) ==
    Tuple([k \in 1 .. Len(dpd) |-> Range(cs[k] - dpd[k] + 1, cs[k] + 1)])

\* [list(range(y-x, max(1, y))) for x, y in zip(dpd, cs)]
ZipRanges(dpd, cs) ==
    Tuple([k \in 1 .. Len(dpd) |-> Range(cs[k] - dpd[k], Max(1, cs[k]))])

indices_per_depth(depth) ==
    ZipRanges(decision_per_depth(depth), cumsum(decision_per_depth(depth)))

\* assert depth >= 0
DepthOkZero(depth) == depth >= 0

\* assert depth > 0
DepthOk(depth) == depth > 0

\* torch.randn(n_leafs, n_labels) and its later values under training: the leaf
\* weight in parameter setting omega
LeafWeight(omega, n_leafs, n_labels) ==
    Tuple([leaf \in 1 .. n_leafs |->
              Tuple([c \in 1 .. n_labels |-> (omega * leaf + c) % 2])])

\* the object a successful NeuralTree(tensor_size, n_labels, depth, dropout, network)
\* is; "tree" is the reference to its scoring sub-network
NeuralTree(n_labels, depth, net) ==
    [n_labels           |-> n_labels,
     depth              |-> depth,
     n_leafs            |-> Pow(2, depth + 1),
     decision_per_depth |-> decision_per_depth(depth),
     indices_per_depth  |-> indices_per_depth(depth),
     tree               |-> net,
     weight             |-> LeafWeight(0, Pow(2, depth + 1), n_labels)]

\* ---- the scoring sub-network ----------------------------------------------
\* The default network ends in a sigmoid: every output lies in [0, 1].  A custom
\* network is any module with n_leafs - 1 outputs, bounded or not.
Sigm(theta, s, node)   == (theta * (node + 1) + s * (node + 2)) % (Q + 1)
Custom(theta, s, node) == ((theta + s + node) % (Q + 3)) - 1

\* self.tree(tensor): row b is computed from sample b alone
Network(net, tensor, n_out) ==
    Tensor(Len(tensor), n_out, Q,
           [k \in 1 .. Len(tensor) * n_out |->
               LET s    == tensor[((k - 1) \div n_out) + 1]
                   node == (k - 1) % n_out
               IN  IF net.sigm THEN Sigm(net.theta, s, node)
                               ELSE Custom(net.theta, s, node)])

\* ---- NeuralTree.forward ---------------------------------------------------
\* the loop over self.indices_per_depth[1:]
RECURSIVE Levels(_, _, _, _)
Levels(decision, leaf_responses, xs, BSZ) ==
    IF xs = <<>> THEN decision
    ELSE Levels(Mul(CatView(decision, BSZ), Columns(leaf_responses, Head(xs))),
                leaf_responses, Tail(xs), BSZ)

Decision(self, leaf_responses, BSZ) ==
    CatView(Levels(Columns(leaf_responses, self.indices_per_depth[1]),
                   leaf_responses, Tail(self.indices_per_depth), BSZ), BSZ)

\* exp of a weight (a weight w is w * ln 2)
Exp(w) == Pow(2, w)

\* exp(self.weight), entry by entry
ExpAll(weight) ==
    Tuple([leaf \in 1 .. Len(weight) |->
             Tuple([c \in 1 .. Len(weight[leaf]) |-> Exp(weight[leaf][c])])])

\* the row sums of e
RowSums(e) == Tuple([leaf \in 1 .. Len(e) |-> ISum(e[leaf])])

\* F.softmax(self.weight, 1): entry (leaf, c) is e[leaf][c] / total[leaf]
Softmax(weight) == [e |-> ExpAll(weight), total |-> RowSums(ExpAll(weight))]

\* the softmax entries as numerators over the common denominator den
Coef(sm, den) ==
    Tuple([leaf \in 1 .. Len(sm.e) |->
             Tuple([c \in 1 .. Len(sm.e[leaf]) |->
                      sm.e[leaf][c] * (den \div sm.total[leaf])])])

\* sum over the leafs of decision[b][leaf] * coef[leaf][c] / den
WeightedSum(decision, coef, den) ==
    Tuple([b \in 1 .. decision.B |->
        Tuple([c \in 1 .. Len(coef[1]) |->
            Rat(ISum(Tuple([leaf \in 1 .. decision.n |->
                        decision.data[(b - 1) * decision.n + leaf] * coef[leaf][c]])),
                decision.one * den)])])

PredictionsOver(decision, sm, den) == WeightedSum(decision, Coef(sm, den), den)

PredictionsWith(decision, sm) == PredictionsOver(decision, sm, LCMs(sm.total))

\* decision.unsqueeze(2).mul(softmax.unsqueeze(0)).sum(1)
Predictions(decision, weight) == PredictionsWith(decision, Softmax(weight))

TreeReturn(leaf_responses, decision, weight) ==
    [leaf_responses |-> leaf_responses,
     decision       |-> decision,
     predictions    |-> Predictions(decision, weight)]

TreeResponses(self, leaf_responses, BSZ) ==
    TreeReturn(leaf_responses, Decision(self, leaf_responses, BSZ), self.weight)

TreeForward(self, net, tensor) ==
    TreeResponses(self, Network(net, tensor, self.n_leafs - 1), Len(tensor))

\* self.weight.data.exp_(): the exponential taken in place
WeightExpInPlace(weight) == ExpAll(weight)

\* the value of self.weight after a forward call: forward reads it only
WeightAfterForward(weight) == weight

\* ---- NeuralDecisionForest.forward -----------------------------------------
\* torch.cat(decisions, 1)
Cat1(ts) ==
    Tensor(ts[1].B, ISum([t \in 1 .. Len(ts) |-> ts[t].n]), ts[1].one,
           Flatten(Tuple([b \in 1 .. ts[1].B |->
                       Flatten(Tuple([t \in 1 .. Len(ts) |-> Row(ts[t], b)]))])))

\* decisions[:, 1::2]
Stride2Odd(t) == Columns(t, Tuple([j \in 1 .. t.n \div 2 |-> 2 * (j - 1) + 1]))

\* decisions[:, 0::2]
Stride2(t) == Columns(t, Tuple([j \in 1 .. (t.n + 1) \div 2 |-> 2 * (j - 1)]))

\* predictions.sum(2)
MeanAsSum(ps) ==
    Tuple([b \in 1 .. Len(ps[1]) |->
        Tuple([c \in 1 .. Len(ps[1][b]) |->
            RSum(Tuple([t \in 1 .. Len(ps) |-> ps[t][b][c]]))])])

\* predictions.mean(2)
Mean(ps) ==
    Tuple([b \in 1 .. Len(ps[1]) |->
        Tuple([c \in 1 .. Len(ps[1][b]) |->
            RMul(RSum(Tuple([t \in 1 .. Len(ps) |-> ps[t][b][c]])), <<1, Len(ps)>>)])])

\* .log(), elementwise: the logarithm of a positive rational is kept as such
Log(ps) ==
    Tuple([b \in 1 .. Len(ps) |->
        Tuple([c \in 1 .. Len(ps[b]) |->
            IF ps[b][c][1] > 0 THEN [log |-> ps[b][c]]
            ELSE IF ps[b][c][1] = 0 THEN [log |-> "-inf"] ELSE [log |-> "nan"]])])

ForestReturn(decisions, mean) ==
    [decisions |-> Stride2(decisions), mean |-> mean, predictions |-> Log(mean)]

ForestForward(rs) ==
    ForestReturn(Cat1(Tuple([t \in 1 .. Len(rs) |-> rs[t].decision])),
                 Mean(Tuple([t \in 1 .. Len(rs) |-> rs[t].predictions])))

\* ---- state ----------------------------------------------------------------
VARIABLES
    kind,      \* "none", or what was constructed: "tree" or "forest"
    trees,     \* the NeuralTree objects (self.trees; a lone tree is <<tree>>)
    nets,      \* the scoring sub-networks, by reference
    req,       \* the arguments of the last constructor call
    err,       \* the exception the last constructor or forward call raised
    inp,       \* the batch of the last forward call
    results,   \* what each tree returned in the last forward call
    out,       \* what the last forward call returned
    steps,     \* optimizer steps taken
    op,        \* the last operation
    vis,       \* VisPlots: the last show_weights call and what it sent to visdom
    cuda       \* CudaModel: training flag, parameters of NET46, the last call

vars == <<kind, trees, nets, req, err, inp, results, out, steps, op, vis, cuda>>

\* the state of the other classes, which no operation of the forest touches
others == <<vis, cuda>>

\* the batches fed to forward: up to MaxBatch different samples, in ascending order
Batches ==
    {b \in UNION {[1 .. n -> Samples] : n \in 1 .. MaxBatch} :
        \A i \in 1 .. Len(b) - 1 : b[i] < b[i + 1]}

Init ==
    /\ kind = "none"
    /\ trees = <<>>
    /\ nets = <<>>
    /\ req = None
    /\ err = "none"
    /\ inp = <<>>
    /\ results = <<>>
    /\ out = None
    /\ steps = 0
    /\ op = "init"
    /\ vis = None
    /\ cuda = None

\* NeuralTree(tensor_size, n_labels, depth, dropout, network)
NewTree(depth, custom) ==
    /\ kind = "none"
    /\ req' = [n_trees |-> 1, depth |-> depth, custom |-> custom]
    /\ op' = "NewTree"
    /\ IF DepthOk(depth)
       THEN /\ kind' = "tree"
            /\ trees' = <<NeuralTree(NLabels, depth, 1)>>
            /\ nets' = <<[theta |-> 0, sigm |-> ~custom]>>
            /\ err' = "none"
       ELSE /\ err' = "AssertionError"
            /\ UNCHANGED <<kind, trees, nets>>
    /\ UNCHANGED <<inp, results, out, steps>>
    /\ UNCHANGED others

\* NeuralDecisionForest(tensor_size, n_labels, n_trees, depth, dropout, network):
\* every tree is built with the same `network` argument; a tree builds a network
\* of its own when the argument is None and keeps the argument otherwise.
NewForest(n_trees, depth, custom) ==
    /\ kind = "none"
    /\ req' = [n_trees |-> n_trees, depth |-> depth, custom |-> custom]
    /\ op' = "NewForest"
    /\ IF n_trees > 0 /\ ~DepthOk(depth)
       THEN /\ err' = "AssertionError"
            /\ UNCHANGED <<kind, trees, nets>>
       ELSE IF n_trees = 0
       THEN /\ err' = "IndexError"      \* self.trees[0] of an empty list
            /\ UNCHANGED <<kind, trees, nets>>
       ELSE /\ kind' = "forest"
            /\ trees' = Tuple([i \in 1 .. n_trees |->
                            NeuralTree(NLabels, depth, IF custom THEN 1 ELSE i)])
            /\ nets' = Tuple([i \in 1 .. (IF custom THEN 1 ELSE n_trees) |->
                            [theta |-> 0, sigm |-> ~custom]])
            /\ err' = "none"
    /\ UNCHANGED <<inp, results, out, steps>>
    /\ UNCHANGED others

\* an optimizer step on the scoring sub-network of tree t
TrainNet(t, theta) ==
    /\ kind # "none"
    /\ steps < MaxSteps
    /\ t \in 1 .. Len(trees)
    /\ nets[trees[t].tree].theta # theta
    /\ nets' = [nets EXCEPT ![trees[t].tree].theta = theta]
    /\ steps' = steps + 1
    /\ op' = "TrainNet"
    /\ inp' = <<>> /\ results' = <<>> /\ out' = None
    /\ UNCHANGED <<kind, trees, req, err>>
    /\ UNCHANGED others

\* an optimizer step on the leaf weight of tree t
TrainWeight(t, omega) ==
    /\ kind # "none"
    /\ steps < MaxSteps
    /\ t \in 1 .. Len(trees)
    /\ trees[t].weight # LeafWeight(omega, trees[t].n_leafs, trees[t].n_labels)
    /\ trees' = [trees EXCEPT ![t].weight =
                    LeafWeight(omega, trees[t].n_leafs, trees[t].n_labels)]
    /\ steps' = steps + 1
    /\ op' = "TrainWeight"
    /\ inp' = <<>> /\ results' = <<>> /\ out' = None
    /\ UNCHANGED <<kind, nets, req, err>>
    /\ UNCHANGED others

\* tree(tensor) or forest(tensor)
Forward(tensor) ==
    /\ kind # "none"
    /\ results' = Tuple([t \in 1 .. Len(trees) |->
                        TreeForward(trees[t], nets[trees[t].tree], tensor)])
    /\ out' = IF kind = "tree"
              THEN [decision    |-> results'[1].decision,
                    predictions |-> results'[1].predictions]
              ELSE ForestForward(results')
    /\ trees' = Tuple([t \in 1 .. Len(trees) |->
                    [trees[t] EXCEPT !.weight = WeightAfterForward(trees[t].weight)]])
    /\ inp' = tensor
    /\ err' = "none"
    /\ op' = "Forward"
    /\ UNCHANGED <<kind, nets, req, steps>>
    /\ UNCHANGED others

Next ==
    \/ \E depth \in -1 .. MaxDepth, custom \in BOOLEAN : NewTree(depth, custom)
    \/ \E n_trees \in 0 .. MaxTrees, depth \in -1 .. MaxDepth, custom \in BOOLEAN :
          NewForest(n_trees, depth, custom)
    \/ \E t \in 1 .. MaxTrees, theta \in Thetas : TrainNet(t, theta)
    \/ \E t \in 1 .. MaxTrees, omega \in Omegas : TrainWeight(t, omega)
    \/ \E tensor \in Batches : Forward(tensor)

Spec == Init /\ [][Next]_vars

TypeOK ==
    /\ kind \in {"none", "tree", "forest"}
    /\ steps \in 0 .. MaxSteps
    /\ Len(trees) <= MaxTrees

\* ---- VisPlots.show_weights ------------------------------------------------
MaxKernels == 5       \* size(0) of a weight
MaxEntries == 2       \* entries of a state_dict
min_width  == 3       \* show_weights: min_width=3

\* the values given for max_samples
MaxSamplesArgs == {6}

\* the tensors of a state_dict: convolution weights, a linear weight and a bias
Weights ==
    {[name |-> "weight", size |-> <<s0, s1, h, w>>] :
        s0 \in 1 .. MaxKernels, s1 \in {1, 2, 3}, h \in {3, 4}, w \in {4}}
    \cup {[name |-> "weight", size |-> <<2, 2>>], [name |-> "bias", size |-> <<2>>]}

\* data.dim()
Dim(p) == Len(p.size)

\* data[p].dim() == 4 and data[p].size(2) > min_width and data[p].size(3) > min_width
IsKernel(p, mw) == Dim(p) = 4 /\ p.size[3] > mw /\ p.size[4] > mw

\* sz[0] after `if sz[1] not in [1, 3]: ws = ws.view(-1, 1, sz[2], sz[3])`
KernelCount(p) ==
    IF p.size[2] \notin {1, 3} THEN p.size[1] * p.size[2] ELSE p.size[1]

\* state_dict branch: if 4 < sz[0] <= max_samples
DictSends(n, max_samples) == 4 < n /\ n <= max_samples

\* nn.Parameter branch: if sz[0] <= max_samples
ParameterSends(n, max_samples) == n <= max_samples

\* histograms(): the name of an entry that gets a histogram
IsWeightName(p) == p.name = "weight"

\* the entries s[k], s[k+1], ... whose flag is set, in order
RECURSIVE Select(_, _, _)
Select(s, flags, k) ==
    IF k > Len(s) THEN <<>>
    ELSE (IF flags[k] THEN <<s[k]>> ELSE <<>>) \o Select(s, flags, k + 1)

\* show_weights(data) for a state_dict, given as the sequence of its entries
ShowWeightsDict(data, max_samples, png) ==
    LET named  == [k \in 1 .. Len(data) |-> IsWeightName(data[k])]
        kernel == [k \in 1 .. Len(data) |-> IsKernel(data[k], min_width)]
        sent   == [k \in 1 .. Len(data) |->
                     kernel[k] /\ DictSends(KernelCount(data[k]), max_samples)]
    IN  /\ vis' = [branch      |-> "dict",
                   data        |-> data,
                   max_samples |-> max_samples,
                   histograms  |-> Len(Select(data, named, 1)),
                   images      |-> Select(data, sent, 1),
                   saved       |-> IF png THEN Len(Select(data, kernel, 1)) ELSE 0,
                   err         |-> "none"]
        /\ UNCHANGED <<kind, trees, nets, req, err, inp, results, out, steps, op, cuda>>

\* show_weights(data) for one nn.Parameter
ShowWeightsParameter(data, max_samples, png) ==
    /\ vis' = [branch      |-> "parameter",
               data        |-> <<data>>,
               max_samples |-> max_samples,
               histograms  |-> 1,
               images      |-> IF IsKernel(data, min_width)
                                  /\ ParameterSends(KernelCount(data), max_samples)
                               THEN <<data>> ELSE <<>>,
               saved       |-> IF png /\ IsKernel(data, min_width) THEN 1 ELSE 0,
               err         |-> "none"]
    /\ UNCHANGED <<kind, trees, nets, req, err, inp, results, out, steps, op, cuda>>

\* show_weights(data) for a torch.Tensor that is no nn.Parameter: the histogram
\* is plotted and the else branch raises
ShowWeightsTensor(data) ==
    /\ vis' = [branch      |-> "tensor",
               data        |-> <<data>>,
               max_samples |-> 0,
               histograms  |-> 1,
               images      |-> <<>>,
               saved       |-> 0,
               err         |-> "NotImplementedError"]
    /\ UNCHANGED <<kind, trees, nets, req, err, inp, results, out, steps, op, cuda>>

StateDicts == UNION {[1 .. n -> Weights] : n \in 1 .. MaxEntries}

NextVis ==
    \/ \E data \in StateDicts, max_samples \in MaxSamplesArgs, png \in BOOLEAN :
          ShowWeightsDict(data, max_samples, png)
    \/ \E data \in Weights, max_samples \in MaxSamplesArgs, png \in BOOLEAN :
          ShowWeightsParameter(data, max_samples, png)
    \/ \E data \in Weights : ShowWeightsTensor(data)

SpecVis == Init /\ [][NextVis]_vars

\* ---- CudaModel.regularize_weights, CudaModel.clip_weights ----------------------
MaxCalls == 2         \* calls made on one CudaModel
MaxAbs   == 3         \* parameter entries lie in -MaxAbs .. MaxAbs
Unit     == 2         \* an entry v stands for the number v / Unit

Values == (0 - MaxAbs) .. MaxAbs

\* the clip argument: a float of value val / Unit, or an int of that value
Clips ==
    {[float |-> TRUE, val |-> v] : v \in {0 - 1, 0, 1, Unit}}
        \cup {[float |-> FALSE, val |-> Unit]}

\* a parameter of NET46: its size and its entries, row-major
Parameter(size, data) == [size |-> size, data |-> data]

\* NET46.parameters(): a convolution with a kernel of two taps, a 1x1
\* convolution, a routing capsule, a fully-connected weight and a bias
Net46(a, b) ==
    << Parameter(<<1, 1, 1, 2>>, <<a, b>>),
       Parameter(<<1, 1, 1, 1>>, <<b>>),
       Parameter(<<1, 1, 1>>, <<a>>),
       Parameter(<<1, 2>>, <<b, a>>),
       Parameter(<<1>>, <<a>>) >>

ndimension(p) == Len(p.size)

\* the largest r with r * r <= n
RECURSIVE ISqrtFrom(_, _)
ISqrtFrom(n, r) == IF (r + 1) * (r + 1) > n THEN r ELSE ISqrtFrom(n, r + 1)

ISqrt(n) == ISqrtFrom(n, 0)

\* x * Unit / l2, rounded towards zero; 0 / 1e-8 is 0
DivL2(x, l2) ==
    IF l2 = 0 THEN 0
    ELSE IF x >= 0 THEN (x * Unit) \div l2 ELSE 0 - (((0 - x) * Unit) \div l2)

\* data.pow(2).sum(..).pow(.5) over each group of g consecutive entries, and
\* data.div_ by it
L2Normalize(data, g) ==
    Tuple([k \in 1 .. Len(data) |->
        LET first == ((k - 1) \div g) * g + 1
            l2    == ISqrt(ISum([j \in 1 .. g |-> data[first + j - 1] * data[first + j - 1]]))
        IN  DivL2(data[k], l2)])

\* data.clamp_(lo, hi)
Clamp(data, lo, hi) ==
    Tuple([k \in 1 .. Len(data) |->
        IF data[k] < lo THEN lo ELSE IF data[k] > hi THEN hi ELSE data[k]])

\* clip_weights: the dimensions whose parameters are clamped
ClippedAny(nd) == nd \in {1, 2, 3, 4}

Clipped(nd) == nd \in {2, 3, 4}

\* clip_weights: the value of clip after the isinstance test
ClipValue(clip) == IF clip.float THEN clip.val ELSE 0

\* the parameters after clip_weights(clip)
ClipWeightsOf(training, params, clip) ==
    IF training /\ ClipValue(clip) > 0
    THEN Tuple([k \in 1 .. Len(params) |->
            IF Clipped(ndimension(params[k]))
            THEN Parameter(params[k].size,
                           Clamp(params[k].data, 0 - ClipValue(clip), ClipValue(clip)))
            ELSE params[k]])
    ELSE params

\* the body of the loop of regularize_weights for one parameter
RegularizeOne(p) ==
    IF ndimension(p) = 4
    THEN IF p.size[3] * p.size[4] > 1
         THEN Parameter(p.size, L2Normalize(p.data, p.size[3] * p.size[4]))
         ELSE Parameter(p.size, Clamp(p.data, 0 - Unit, Unit))
    ELSE IF ndimension(p) = 3 THEN p
    ELSE IF ndimension(p) = 2
         THEN Parameter(p.size, L2Normalize(p.data, p.size[2]))
         ELSE p

\* the parameters after regularize_weights(clip)
RegularizeWeightsOf(training, params, clip) ==
    IF training
    THEN LET clipped == ClipWeightsOf(training, params, clip)
         IN  Tuple([k \in 1 .. Len(clipped) |-> RegularizeOne(clipped[k])])
    ELSE params

\* CudaModel(is_cuda, gpus, net, net_kwargs): a module starts in training mode
NewCudaModel(a, b) ==
    /\ cuda = None
    /\ cuda' = [training |-> TRUE, params |-> Net46(a, b), before |-> Net46(a, b),
                op |-> "init", clip |-> None, calls |-> 0]
    /\ UNCHANGED <<kind, trees, nets, req, err, inp, results, out, steps, op, vis>>

\* train(mode) and eval() of nn.Module set self.training
Train(mode) ==
    /\ cuda # None
    /\ cuda.calls < MaxCalls
    /\ cuda' = [cuda EXCEPT !.training = mode, !.before = cuda.params,
                            !.op = "train", !.clip = None, !.calls = @ + 1]
    /\ UNCHANGED <<kind, trees, nets, req, err, inp, results, out, steps, op, vis>>

ClipWeights(clip) ==
    /\ cuda # None
    /\ cuda.calls < MaxCalls
    /\ cuda' = [cuda EXCEPT !.params = ClipWeightsOf(cuda.training, cuda.params, clip),
                            !.before = cuda.params,
                            !.op = "clip_weights", !.clip = clip, !.calls = @ + 1]
    /\ UNCHANGED <<kind, trees, nets, req, err, inp, results, out, steps, op, vis>>

RegularizeWeights(clip) ==
    /\ cuda # None
    /\ cuda.calls < MaxCalls
    /\ cuda' = [cuda EXCEPT !.params = RegularizeWeightsOf(cuda.training, cuda.params, clip),
                            !.before = cuda.params,
                            !.op = "regularize_weights", !.clip = clip, !.calls = @ + 1]
    /\ UNCHANGED <<kind, trees, nets, req, err, inp, results, out, steps, op, vis>>

NextCuda ==
    \/ \E a \in Values, b \in Values : NewCudaModel(a, b)
    \/ \E mode \in BOOLEAN : Train(mode)
    \/ \E clip \in Clips : ClipWeights(clip)
    \/ \E clip \in Clips : RegularizeWeights(clip)

SpecCuda == Init /\ [][NextCuda]_vars

\* ---- properties ------------------------------------------------------------
\* the decision values of sample b all lie in [0, 1]
RowInRange(leaf_responses, b) ==
    \A k \in 1 .. leaf_responses.n :
        /\ Row(leaf_responses, b)[k] >= 0
        /\ Row(leaf_responses, b)[k] <= leaf_responses.one

Called == op = "Forward" /\ results # <<>>

TreeIds == 1 .. Len(trees)

RowIds == 1 .. Len(inp)

\* C1: for decision values in [0, 1], each row of the leaf-reachability
\* distribution returned by NeuralTree.forward sums to 1.
C1_RowsSumToOne ==
    Called =>
        \A t \in TreeIds, b \in RowIds :
            RowInRange(results[t].leaf_responses, b)
                => ISum(Row(results[t].decision, b)) = results[t].decision.one

\* C2: the decision tensor of NeuralTree.forward has 2^(depth+1) entries per
\* sample, and for decision values in [0, 1] every entry lies in [0, 1].
C2_ShapeAndRange ==
    Called =>
        \A t \in TreeIds :
            /\ results[t].decision.B = Len(inp)
            /\ results[t].decision.n = Pow(2, trees[t].depth + 1)
            /\ Len(results[t].decision.data) = Len(inp) * Pow(2, trees[t].depth + 1)
            /\ results[t].decision.one = Pow(Q, trees[t].depth + 1)
            /\ \A b \in RowIds :
                  RowInRange(results[t].leaf_responses, b)
                      => \A k \in 1 .. results[t].decision.n :
                            /\ Row(results[t].decision, b)[k] >= 0
                            /\ Row(results[t].decision, b)[k] <= results[t].decision.one

C2_Witness ==
    /\ Called
    /\ \E t \in TreeIds, b \in RowIds :
          /\ trees[t].depth = 2
          /\ RowInRange(results[t].leaf_responses, b)
          /\ \E k \in 1 .. results[t].decision.n :
                /\ Row(results[t].decision, b)[k] > 0
                /\ Row(results[t].decision, b)[k] < results[t].decision.one

\* the product of the decisions on the path from the root to leaf (0-based):
\* at level k the path is at node 2^k - 1 + leaf \div 2^(depth+1-k) and leaves it
\* by branch (leaf \div 2^(depth-k)) % 2, which contributes p or 1 - p
RECURSIVE PathProduct(_, _, _, _, _)
PathProduct(row, depth, leaf, k, flip) ==
    IF k > depth THEN 1
    ELSE LET node   == Pow(2, k) - 1 + (leaf \div Pow(2, depth + 1 - k))
             branch == (leaf \div Pow(2, depth - k)) % 2
             p      == row[node + 1]
         IN  (IF (branch = 0) # flip THEN p ELSE Q - p)
                 * PathProduct(row, depth, leaf, k + 1, flip)

\* C3: the leaf-reachability value of every leaf is the product, over the
\* decision nodes on the path from the root to the leaf, of p or 1 - p.
C3_PathProduct ==
    Called =>
        \A t \in TreeIds, b \in RowIds :
            RowInRange(results[t].leaf_responses, b)
                => \E flip \in BOOLEAN :
                      \A leaf \in 0 .. trees[t].n_leafs - 1 :
                          Row(results[t].decision, b)[leaf + 1] =
                              PathProduct(Row(results[t].leaf_responses, b),
                                          trees[t].depth, leaf, 0, flip)

\* C4: for decision values in [0, 1] the class-probability vector of every tree
\* sums to 1, and so does the vector the forest averages over its trees.
C4_ClassProbabilitiesSumToOne ==
    Called =>
        \A b \in RowIds :
            (\A t \in TreeIds : RowInRange(results[t].leaf_responses, b))
                => /\ \A t \in TreeIds : RSum(results[t].predictions[b]) = <<1, 1>>
                   /\ kind = "forest" => RSum(out.mean[b]) = <<1, 1>>

\* every tree carries the weights of the first one
IdenticalTrees ==
    \A t \in TreeIds :
        /\ trees[t].weight = trees[1].weight
        /\ nets[trees[t].tree] = nets[trees[1].tree]

\* C5: a forest of K trees with identical weights returns the log
\* class-probabilities of the forest made of one such tree.
C5_IdenticalTreesAsOne ==
    (Called /\ kind = "forest" /\ IdenticalTrees) =>
        out.predictions =
            ForestForward(<<TreeForward(trees[1], nets[trees[1].tree], inp)>>).predictions

C5_Witness ==
    /\ Called /\ kind = "forest" /\ IdenticalTrees
    /\ Len(trees) >= 2
    /\ steps > 0
    /\ \A t \in TreeIds : trees[t].tree = t

\* C6: a constructor call with depth <= 0 (and, for a forest, n_trees >= 1)
\* raises before any tree state exists; no tree has depth <= 0.
C6_DepthRejected ==
    /\ \A t \in TreeIds : trees[t].depth > 0
    /\ (op \in {"NewTree", "NewForest"} /\ req.depth <= 0 /\ req.n_trees >= 1)
          => /\ err = "AssertionError"
             /\ kind = "none" /\ trees = <<>> /\ nets = <<>>

C6_Witness ==
    /\ op = "NewForest" /\ req.depth = 0 /\ req.n_trees >= 1
    /\ err = "AssertionError"

\* C7: the rows a batch yields are the rows its samples yield one by one.
C7_BatchInvariance ==
    Called =>
        \A t \in TreeIds, b \in RowIds :
            /\ Row(results[t].decision, b) =
                  TreeForward(trees[t], nets[trees[t].tree], <<inp[b]>>).decision.data
            /\ results[t].predictions[b] =
                  TreeForward(trees[t], nets[trees[t].tree], <<inp[b]>>).predictions[1]

C7_Witness ==
    /\ Called
    /\ Len(inp) = 2
    /\ \E t \in TreeIds :
          /\ trees[t].depth = 2
          /\ Row(results[t].decision, 1) # Row(results[t].decision, 2)

C9_TreesIndependent ==
    [][op' = "TrainNet" =>
          Cardinality({t \in TreeIds : nets'[trees'[t].tree] # nets[trees[t].tree]}) <= 1]_vars

\* C10: a forward call whose scoring sub-network yields a decision value
\* outside [0, 1] raises instead of returning a result.
C10_FailFast ==
    (op = "Forward" /\
     \E t \in TreeIds, b \in RowIds :
         ~RowInRange(Network(nets[trees[t].tree], inp, trees[t].n_leafs - 1), b))
        => err = "NumericalDegeneracy" /\ out = None

\* C12: indices_per_depth splits the decision-node indices 0 .. n_leafs-2 into
\* depth+1 contiguous ascending groups; group k has 2^k indices and starts at
\* 2^k - 1, group 0 is the root index 0 alone.
C12_IndexPartition ==
    \A t \in TreeIds :
        /\ Len(trees[t].indices_per_depth) = trees[t].depth + 1
        /\ trees[t].indices_per_depth[1] = <<0>>
        /\ \A k \in 0 .. trees[t].depth :
              /\ Len(trees[t].indices_per_depth[k + 1]) = Pow(2, k)
              /\ \A j \in 1 .. Pow(2, k) :
                    trees[t].indices_per_depth[k + 1][j] = Pow(2, k) - 1 + (j - 1)
        /\ Flatten(trees[t].indices_per_depth) = Range(0, trees[t].n_leafs - 1)

C12_Witness ==
    /\ kind = "forest"
    /\ \E t \in TreeIds :
          /\ trees[t].depth = 2
          /\ trees[t].indices_per_depth = <<<<0>>, <<1, 2>>, <<3, 4, 5, 6>>>>

\* the running decision of tree t before the final complement step
Accumulated(t) ==
    Levels(Columns(results[t].leaf_responses, trees[t].indices_per_depth[1]),
           results[t].leaf_responses, Tail(trees[t].indices_per_depth), Len(inp))

\* C13: the decision tensor of a forest has n_trees * 2^depth entries per sample;
\* entry t * 2^depth + j is entry 2j of tree t's leaf distribution, which is the
\* value accumulated before the final complement step.
C13_ForestDecisions ==
    (Called /\ kind = "forest") =>
        /\ out.decisions.B = Len(inp)
        /\ out.decisions.n = Len(trees) * Pow(2, trees[1].depth)
        /\ \A b \in RowIds, t \in 0 .. Len(trees) - 1, j \in 0 .. Pow(2, trees[1].depth) - 1 :
              /\ Row(out.decisions, b)[t * Pow(2, trees[1].depth) + j + 1] =
                    Row(results[t + 1].decision, b)[2 * j + 1]
              /\ Row(out.decisions, b)[t * Pow(2, trees[1].depth) + j + 1] =
                    Row(Accumulated(t + 1), b)[j + 1]

C13_Witness ==
    /\ Called /\ kind = "forest"
    /\ Len(trees) = 2 /\ trees[1].depth = 2
    /\ Len(inp) = 2
    /\ Row(results[1].decision, 1) # Row(results[2].decision, 1)
    /\ \E j \in 1 .. 4 : Row(results[1].decision, 1)[2 * j] # Row(results[1].decision, 1)[2 * j - 1]

\* C14: for decision values in [0, 1] every entry of the tree-averaged
\* class-probability vector is > 0, so no log-probability of a forest is
\* -infinity or NaN.
C14_PositiveBeforeLog ==
    (Called /\ kind = "forest") =>
        \A b \in RowIds :
            (\A t \in TreeIds : RowInRange(results[t].leaf_responses, b))
                => \A c \in 1 .. NLabels :
                      /\ out.mean[b][c][1] > 0
                      /\ out.predictions[b][c] = [log |-> out.mean[b][c]]

C14_Witness ==
    /\ Called /\ kind = "forest"
    /\ \E b \in RowIds :
          /\ \A t \in TreeIds : RowInRange(results[t].leaf_responses, b)
          /\ \E t \in TreeIds :
                \E k \in 1 .. results[t].decision.n : Row(results[t].decision, b)[k] = 0

\* C11: show_weights sends the kernels of a 4D weight whose kernel height and
\* width are above min_width exactly when the number of kernels (after the
\* reshape to single-channel kernels) is at least 4 and at most max_samples, in
\* the state_dict branch and in the nn.Parameter branch alike.
C11_ImagesFromFourKernels ==
    (vis # None /\ vis.branch \in {"dict", "parameter"}) =>
        \A k \in 1 .. Len(vis.data) :
            (Len(vis.data[k].size) = 4 /\ vis.data[k].size[3] > min_width
                                       /\ vis.data[k].size[4] > min_width)
                => ((\E i \in 1 .. Len(vis.images) : vis.images[i] = vis.data[k])
                        <=> LET n == IF vis.data[k].size[2] \in {1, 3}
                                     THEN vis.data[k].size[1]
                                     ELSE vis.data[k].size[1] * vis.data[k].size[2]
                            IN  4 <= n /\ n <= vis.max_samples)

\* C15: over any sequence of regularize_weights and clip_weights calls, nothing
\* changes while the model is not in training mode; clip_weights changes a
\* parameter only in training mode with a float clip > 0, and then every entry of
\* each parameter of 2, 3 or 4 dimensions lies in [-clip, clip]; a parameter of
\* any other number of dimensions is changed by neither operation.
C15_WeightsFrame ==
    (cuda # None /\ cuda.op \in {"clip_weights", "regularize_weights"}) =>
        /\ ~cuda.training => cuda.params = cuda.before
        /\ (cuda.op = "clip_weights" /\ cuda.params # cuda.before)
              => (cuda.training /\ cuda.clip.float /\ cuda.clip.val > 0)
        /\ (cuda.op = "clip_weights" /\ cuda.training /\ cuda.clip.float
                /\ cuda.clip.val > 0)
              => \A k \in 1 .. Len(cuda.params) :
                    Len(cuda.params[k].size) \in {2, 3, 4}
                        => \A i \in 1 .. Len(cuda.params[k].data) :
                              /\ cuda.params[k].data[i] >= 0 - cuda.clip.val
                              /\ cuda.params[k].data[i] <= cuda.clip.val
        /\ \A k \in 1 .. Len(cuda.params) :
              Len(cuda.params[k].size) \notin {2, 3, 4}
                  => cuda.params[k] = cuda.before[k]

\* a training-mode clip_weights with a positive float clip has clamped a weight
\* and left a bias outside [-clip, clip] as it was
C15_Witness ==
    /\ cuda # None
    /\ cuda.op = "clip_weights"
    /\ cuda.training
    /\ cuda.clip.float /\ cuda.clip.val > 0
    /\ cuda.params # cuda.before
    /\ \E k \in 1 .. Len(cuda.params) :
          /\ Len(cuda.params[k].size) = 1
          /\ cuda.params[k].data[1] > cuda.clip.val

====
